---- MODULE Spec2Model ----
(***************************************************************************)
(* Model of the Modbus register decoder (modbus_conversion.c/.h).          *)
(*                                                                         *)
(* The library is a set of pure functions: a caller owns a register buffer *)
(* and a result union, makes one call, and reads the return code and the   *)
(* union.  The state is the caller's memory, the arguments of the call and *)
(* what the call returned.                                                 *)
(*                                                                         *)
(* TLC integers are 32 bits wide, so 32- and 64-bit quantities are kept as *)
(* base-256 digit strings (Nat* operators below), and signed values as a   *)
(* sign and a magnitude.  IEEE-754 values are kept as their encodings.     *)
(***************************************************************************)
EXTENDS Integers, Sequences, FiniteSets

VARIABLES
    buffer,      \* the caller's register buffer: a sequence of 16-bit words
    ptrs,        \* which pointers the caller passes: [registers, result] |-> "ok" | "null"
    slot,        \* the caller's result union: [member, val]
    call,        \* arguments of the call made (fn = "none" before the call)
    rc,          \* return code of the call
    nread,       \* number of leading registers the call read
    pc,          \* "ready" before the call, "done" after it
    threads      \* concurrent callers: each one's call, position, locals and result

vars == <<buffer, ptrs, slot, call, rc, nread, pc, threads>>

(***************************************************************************)
(* Return codes (modbus_conversion.h)                                      *)
(***************************************************************************)
MODBUS_CONV_OK == 0
MODBUS_CONV_ERR_NULL_PTR == -1
MODBUS_CONV_ERR_INVALID_TYPE == -2
MODBUS_CONV_ERR_INVALID_BIT == -3
MODBUS_CONV_ERR_INSUFF_REGS == -4
MODBUS_CONV_ERR_UNKNOWN == -5

(***************************************************************************)
(* modbus_data_type_t: the enumerators in declaration order                *)
(***************************************************************************)
MODBUS_BIT_BOOLEAN == 0
MODBUS_INT8_SIGNED == 1
MODBUS_INT8_UNSIGNED == 2
MODBUS_INT16_SIGNED_AB == 3
MODBUS_INT16_SIGNED_BA == 4
MODBUS_INT16_UNSIGNED_AB == 5
MODBUS_INT16_UNSIGNED_BA == 6
MODBUS_INT32_SIGNED_ABCD == 7
MODBUS_INT32_SIGNED_DCBA == 8
MODBUS_INT32_SIGNED_BADC == 9
MODBUS_INT32_SIGNED_CDAB == 10
MODBUS_INT32_UNSIGNED_ABCD == 11
MODBUS_INT32_UNSIGNED_DCBA == 12
MODBUS_INT32_UNSIGNED_BADC == 13
MODBUS_INT32_UNSIGNED_CDAB == 14
MODBUS_INT64_SIGNED_ABCDEFGH == 15
MODBUS_INT64_SIGNED_HGFEDCBA == 16
MODBUS_INT64_SIGNED_BADCFEHG == 17
MODBUS_INT64_SIGNED_CDABGHEF == 18
MODBUS_INT64_SIGNED_DCBAHGFE == 19
MODBUS_INT64_SIGNED_GHEFCDAB == 20
MODBUS_INT64_SIGNED_FEHGBADC == 21
MODBUS_INT64_SIGNED_EFGHABCD == 22
MODBUS_INT64_UNSIGNED_ABCDEFGH == 23
MODBUS_INT64_UNSIGNED_HGFEDCBA == 24
MODBUS_INT64_UNSIGNED_BADCFEHG == 25
MODBUS_INT64_UNSIGNED_CDABGHEF == 26
MODBUS_INT64_UNSIGNED_DCBAHGFE == 27
MODBUS_INT64_UNSIGNED_GHEFCDAB == 28
MODBUS_INT64_UNSIGNED_FEHGBADC == 29
MODBUS_INT64_UNSIGNED_EFGHABCD == 30
MODBUS_IEEE_FLOAT32_ABCD == 31
MODBUS_IEEE_FLOAT32_CDAB == 32
MODBUS_IEEE_FLOAT32_DCBA == 33
MODBUS_IEEE_FLOAT32_BADC == 34
MODBUS_IEEE_FLOAT64_ABCDEFGH == 35
MODBUS_IEEE_FLOAT64_HGFEDCBA == 36
MODBUS_IEEE_FLOAT64_BADCFEHG == 37
MODBUS_IEEE_FLOAT64_CDABGHEF == 38
MODBUS_IEEE_FLOAT64_DCBAHGFE == 39
MODBUS_IEEE_FLOAT64_GHEFCDAB == 40
MODBUS_IEEE_FLOAT64_FEHGBADC == 41
MODBUS_IEEE_FLOAT64_EFGHABCD == 42

\* The 43 enumerators.
DataTypes == MODBUS_BIT_BOOLEAN .. MODBUS_IEEE_FLOAT64_EFGHABCD

(***************************************************************************)
(* Multi-byte naturals: 10 base-256 digits, least significant first.       *)
(***************************************************************************)
DigitIdx == 1 .. 10

Pow2(n) == 2 ^ n

NatZero == [i \in DigitIdx |-> 0]

\* A small non-negative integer (below 2^31) as a digit string.
NatOfInt(n) == [i \in DigitIdx |-> IF i <= 4 THEN (n \div Pow2(8 * (i - 1))) % 256 ELSE 0]

NatOne == NatOfInt(1)

\* The value whose bytes, most significant first, are `bytes`.
NatOfBytes(bytes) ==
    [i \in DigitIdx |-> IF i <= Len(bytes) THEN bytes[Len(bytes) + 1 - i] ELSE 0]

\* The low n bytes of a, most significant first.
NatToBytes(a, n) == [i \in 1 .. n |-> a[n + 1 - i]]

\* A digit string below 2^24 as an integer.
NatToInt(a) == a[1] + 256 * a[2] + 65536 * a[3]

NatDigit(a, j) == IF j \in DigitIdx THEN a[j] ELSE 0

RECURSIVE NatAddFrom(_, _, _, _)
NatAddFrom(a, b, i, carry) ==
    IF i \notin DigitIdx THEN <<>>
    ELSE LET s == a[i] + b[i] + carry
         IN  <<s % 256>> \o NatAddFrom(a, b, i + 1, s \div 256)

NatAdd(a, b) == NatAddFrom(a, b, 1, 0)

RECURSIVE NatSubFrom(_, _, _, _)
NatSubFrom(a, b, i, borrow) ==
    IF i \notin DigitIdx THEN <<>>
    ELSE LET d == a[i] - b[i] - borrow
         IN  IF d < 0 THEN <<d + 256>> \o NatSubFrom(a, b, i + 1, 1)
                      ELSE <<d>> \o NatSubFrom(a, b, i + 1, 0)

\* a - b, for a >= b.
NatSub(a, b) == NatSubFrom(a, b, 1, 0)

RECURSIVE NatMulFrom(_, _, _, _)
NatMulFrom(a, m, i, carry) ==
    IF i \notin DigitIdx THEN <<>>
    ELSE LET s == a[i] * m + carry
         IN  <<s % 256>> \o NatMulFrom(a, m, i + 1, s \div 256)

\* a * m for a small multiplier m >= 0.
NatMulSmall(a, m) == NatMulFrom(a, m, 1, 0)

RECURSIVE NatCmpFrom(_, _, _)
NatCmpFrom(a, b, i) ==
    IF i \notin DigitIdx THEN 0
    ELSE IF a[i] < b[i] THEN -1
    ELSE IF a[i] > b[i] THEN 1
    ELSE NatCmpFrom(a, b, i - 1)

\* -1, 0 or 1 as a is below, equal to or above b.
NatCmp(a, b) == NatCmpFrom(a, b, Cardinality(DigitIdx))

NatLess(a, b) == NatCmp(a, b) < 0
NatLeq(a, b) == NatCmp(a, b) <= 0

\* floor(a / 2^d)
NatShr(a, d) ==
    LET by == d \div 8
        bi == d % 8
    IN  [i \in DigitIdx |->
            (NatDigit(a, i + by) \div Pow2(bi))
            + (NatDigit(a, i + by + 1) % Pow2(bi)) * Pow2(8 - bi)]

\* a * 2^d (the caller keeps the product within the digits)
NatShl(a, d) ==
    LET by == d \div 8
        bi == d % 8
    IN  [i \in DigitIdx |->
            ((NatDigit(a, i - by) * Pow2(bi)) % 256)
            + (NatDigit(a, i - by - 1) \div Pow2(8 - bi))]

\* a mod 2^d
NatLow(a, d) ==
    LET by == d \div 8
        bi == d % 8
    IN  [i \in DigitIdx |->
            IF i <= by THEN a[i]
            ELSE IF i = by + 1 THEN a[i] % Pow2(bi)
            ELSE 0]

NatPow2(n) == NatShl(NatOne, n)

\* Number of significant bits of a (0 for zero).
NatBitLen(a) ==
    LET nz == {i \in DigitIdx : a[i] # 0}
    IN  IF nz = {} THEN 0
        ELSE LET top == CHOOSE i \in nz : \A j \in nz : j <= i
             IN  8 * (top - 1) + (CHOOSE n \in 1 .. 8 : Pow2(n - 1) <= a[top] /\ a[top] < Pow2(n))

\* a / 2^d rounded to the nearest integer, ties to even (IEEE round-to-nearest).
NatRound(a, d) ==
    IF d = 0 THEN a
    ELSE LET q == NatShr(a, d)
             c == NatCmp(NatLow(a, d), NatPow2(d - 1))
         IN  IF c > 0 \/ (c = 0 /\ q[1] % 2 = 1) THEN NatAdd(q, NatOne) ELSE q

\* Signed integers: a sign and a magnitude (zero is never negative).
IntOf(neg, mag) == [neg |-> neg /\ mag # NatZero, mag |-> mag]

IntZero == IntOf(FALSE, NatZero)

\* A C int that fits TLC's integers.
IntOfC(n) == IF n < 0 THEN IntOf(TRUE, NatOfInt(0 - n)) ELSE IntOf(FALSE, NatOfInt(n))

(***************************************************************************)
(* C conversions                                                           *)
(***************************************************************************)
\* Integer types of the result union.
TyI8 == [bits |-> 8, signed |-> TRUE]
TyU8 == [bits |-> 8, signed |-> FALSE]
TyI16 == [bits |-> 16, signed |-> TRUE]
TyU16 == [bits |-> 16, signed |-> FALSE]
TyI32 == [bits |-> 32, signed |-> TRUE]
TyU32 == [bits |-> 32, signed |-> FALSE]
TyI64 == [bits |-> 64, signed |-> TRUE]
TyU64 == [bits |-> 64, signed |-> FALSE]

TypeMin(ty) == IF ty.signed THEN IntOf(TRUE, NatPow2(ty.bits - 1)) ELSE IntZero
TypeMax(ty) ==
    IF ty.signed THEN IntOf(FALSE, NatSub(NatPow2(ty.bits - 1), NatOne))
    ELSE IntOf(FALSE, NatSub(NatPow2(ty.bits), NatOne))

\* v is a value of integer type ty.
Fits(ty, v) ==
    IF v.neg THEN ty.signed /\ NatLeq(v.mag, NatPow2(ty.bits - 1))
    ELSE NatLeq(v.mag, TypeMax(ty).mag)

\* A faulty variant of ToSigned: the value is kept, not the bits.
ToSignedKeepsValue(u, bits) == IntOf(FALSE, u)
\* (intN_t)u for an unsigned N-bit u: the value with the same N bits.
ToSigned(u, bits) ==
    IF NatLess(u, NatPow2(bits - 1)) THEN IntOf(FALSE, u)
    ELSE IntOf(TRUE, NatSub(NatPow2(bits), u))

\* v reduced modulo 2^bits into the range of ty.
WrapTo(ty, v) ==
    LET m == NatLow(v.mag, ty.bits)
        u == IF v.neg /\ m # NatZero THEN NatSub(NatPow2(ty.bits), m) ELSE m
    IN  IF ty.signed THEN ToSigned(u, ty.bits) ELSE IntOf(FALSE, u)

\* (double)n for a non-negative integer n: n rounded to 53 significant bits.
ToDouble(n) ==
    LET len == NatBitLen(n)
    IN  IF len <= 53 THEN n ELSE NatShl(NatRound(n, len - 53), len - 53)

\* A scaling factor is the double num/den, den a power of two.
Log2(den) == CHOOSE s \in 0 .. 8 : Pow2(s) = den
Abs(n) == IF n < 0 THEN 0 - n ELSE n

\* The integral part of the double product (double)v * scaling_factor.
Scaled(v, scaling_factor) ==
    LET p == ToDouble(NatMulSmall(ToDouble(v.mag), Abs(scaling_factor.num)))
    IN  IntOf(v.neg # (scaling_factor.num < 0), NatShr(p, Log2(scaling_factor.den)))

\* (T)x for a double x with integral part v.  When v is not a value of T the
\* conversion is undefined (C11 6.3.1.4): builds wrap (x86 narrowing after a
\* wider cvttsd2si), saturate (ARM fcvtzs) or give the "integer indefinite"
\* pattern 100..0 of the conversion's width, cut to T (x86 cvttsd2si).
CastDouble(ty, v) ==
    IF Fits(ty, v) THEN {v}
    ELSE {WrapTo(ty, v),
          IF v.neg THEN TypeMin(ty) ELSE TypeMax(ty),
          WrapTo(ty, IntOf(FALSE, NatPow2(ty.bits - 1))),
          WrapTo(ty, IntOf(FALSE, NatPow2(2 * ty.bits - 1)))}

(***************************************************************************)
(* IEEE-754 encodings.  fmt gives the fraction and exponent field widths.  *)
(***************************************************************************)
Binary32 == [mbits |-> 23, ebits |-> 8]
Binary64 == [mbits |-> 52, ebits |-> 11]
FmtBytes(fmt) == (1 + fmt.ebits + fmt.mbits) \div 8

FSign(fmt, bytes) == bytes[1] \div 128
FExp(fmt, bytes) == NatToInt(NatLow(NatShr(NatOfBytes(bytes), fmt.mbits), fmt.ebits))
FFrac(fmt, bytes) == NatLow(NatOfBytes(bytes), fmt.mbits)
FExpMax(fmt) == Pow2(fmt.ebits) - 1
FIsNaN(fmt, bytes) == FExp(fmt, bytes) = FExpMax(fmt) /\ FFrac(fmt, bytes) # NatZero

FEncode(fmt, sign, exp, frac) ==
    NatToBytes(NatAdd(frac, NatAdd(NatShl(NatOfInt(exp), fmt.mbits),
                                   NatShl(NatOfInt(sign), fmt.mbits + fmt.ebits))),
               FmtBytes(fmt))

\* The finite value mant * 2^(x - bias - mbits) rounded to fmt (nearest, ties to even).
FRoundFinite(fmt, sign, mant, x) ==
    LET len == NatBitLen(mant)
        e0 == IF x + len - (fmt.mbits + 1) > 1 THEN x + len - (fmt.mbits + 1) ELSE 1
        m0 == IF e0 >= x THEN NatRound(mant, e0 - x) ELSE NatShl(mant, x - e0)
        carry == NatBitLen(m0) = fmt.mbits + 2
        m1 == IF carry THEN NatShr(m0, 1) ELSE m0
        e1 == IF carry THEN e0 + 1 ELSE e0
    IN  IF mant = NatZero THEN FEncode(fmt, sign, 0, NatZero)
        ELSE IF e1 >= FExpMax(fmt) THEN FEncode(fmt, sign, FExpMax(fmt), NatZero)
        ELSE IF NatBitLen(m1) <= fmt.mbits THEN FEncode(fmt, sign, 0, m1)
        ELSE FEncode(fmt, sign, e1, NatLow(m1, fmt.mbits))

\* The encodings the product value * scaling_factor can have, the product rounded
\* once to fmt.  (For binary32 the code multiplies in double, which is exact for
\* these factors, and rounds on the store to float.)  A NaN operand comes back
\* quieted with its payload (x86, ARM) or as the default NaN (RISC-V).
FloatScale(fmt, bytes, scaling_factor) ==
    LET sign == FSign(fmt, bytes)
        exp == FExp(fmt, bytes)
        frac == FFrac(fmt, bytes)
        rsign == IF scaling_factor.num < 0 THEN 1 - sign ELSE sign
        mant == IF exp = 0 THEN frac ELSE NatAdd(frac, NatPow2(fmt.mbits))
        e == IF exp = 0 THEN 1 ELSE exp
    IN  IF exp = FExpMax(fmt) /\ frac # NatZero
        THEN {FEncode(fmt, sign, exp, NatAdd(NatLow(frac, fmt.mbits - 1), NatPow2(fmt.mbits - 1))),
              FEncode(fmt, 0, exp, NatPow2(fmt.mbits - 1))}
        ELSE IF exp = FExpMax(fmt)
        THEN {FEncode(fmt, rsign, exp, NatZero)}
        ELSE {FRoundFinite(fmt, rsign, NatMulSmall(mant, Abs(scaling_factor.num)),
                           e - Log2(scaling_factor.den))}

(***************************************************************************)
(* Pointers, the result union and what a call returns                      *)
(***************************************************************************)
\* A register pointer is NULL or points at memory: the caller's buffer and
\* whatever follows it.  registers[i] of the C code is Reg(registers, i).
NULL == [null |-> TRUE]
RegPtr(mem) == [null |-> FALSE, mem |-> mem]
ResPtr == [null |-> FALSE]
Reg(registers, i) == registers.mem[i + 1]

\* Values of the members of modbus_value_t.
BoolVal(b) == [b |-> b]
FloatVal(bytes) == [bits |-> bytes]

\* A return: the code, the store made through `result` (none, or one member
\* and its value) and how many leading registers were read.
Ret(code, n) == [rc |-> code, store |-> <<>>, nread |-> n]
Stored(member, val, n) ==
    [rc |-> MODBUS_CONV_OK, store |-> <<[member |-> member, val |-> val]>>, nread |-> n]

(***************************************************************************)
(* Helper functions                                                        *)
(***************************************************************************)
\* A faulty variant of swap_bytes_16: the bytes stay where they are.
swap_bytes_16_identity(value) == value
swap_bytes_16(value) == (value % 256) * 256 + ((value \div 256) % 256)

regs_to_bytes(regs, count) ==
    [i \in 1 .. 2 * count |->
        IF i % 2 = 1 THEN (regs[(i + 1) \div 2] \div 256) % 256 ELSE regs[i \div 2] % 256]

bytes_reverse(bytes, len) == [i \in 1 .. len |-> bytes[len + 1 - i]]

\* (b[0] << 8(n-1)) | ... | b[n-1]
RECURSIVE BytesToUInt(_)
BytesToUInt(bytes) ==
    IF bytes = <<>> THEN NatZero
    ELSE NatAdd(NatShl(NatOfInt(Head(bytes)), 8 * (Len(bytes) - 1)), BytesToUInt(Tail(bytes)))

(***************************************************************************)
(* The specialized decoders                                                *)
(***************************************************************************)
\* A faulty variant of modbus_convert_bit_bool: bit position 16 is accepted.
modbus_convert_bit_bool_off_by_one(registers, bit_pos, result) ==
    IF registers.null \/ result.null THEN {Ret(MODBUS_CONV_ERR_NULL_PTR, 0)}
    ELSE IF bit_pos > 16 THEN {Ret(MODBUS_CONV_ERR_INVALID_BIT, 0)}
    ELSE {Stored("bool_val", BoolVal((Reg(registers, 0) \div Pow2(bit_pos)) % 2 = 1), 1)}
\* A faulty variant of modbus_convert_bit_bool: the result is cleared before the
\* bit position is validated.
modbus_convert_bit_bool_clears_first(registers, bit_pos, result) ==
    IF registers.null \/ result.null THEN {Ret(MODBUS_CONV_ERR_NULL_PTR, 0)}
    ELSE IF bit_pos > 15
    THEN {[rc |-> MODBUS_CONV_ERR_INVALID_BIT,
           store |-> <<[member |-> "bool_val", val |-> BoolVal(FALSE)]>>, nread |-> 0]}
    ELSE {Stored("bool_val", BoolVal((Reg(registers, 0) \div Pow2(bit_pos)) % 2 = 1), 1)}
modbus_convert_bit_bool(registers, bit_pos, result) ==
    IF registers.null \/ result.null THEN {Ret(MODBUS_CONV_ERR_NULL_PTR, 0)}
    ELSE IF bit_pos > 15 THEN {Ret(MODBUS_CONV_ERR_INVALID_BIT, 0)}
    ELSE {Stored("bool_val", BoolVal((Reg(registers, 0) \div Pow2(bit_pos)) % 2 = 1), 1)}

modbus_convert_int8_signed(registers, scaling_factor, result) ==
    IF registers.null \/ result.null THEN {Ret(MODBUS_CONV_ERR_NULL_PTR, 0)}
    ELSE LET val == Reg(registers, 0) % 256
             signed_val == IF val > 127 THEN val - 256 ELSE val
         IN  {Stored("i8", v, 1) : v \in CastDouble(TyI8, Scaled(IntOfC(signed_val), scaling_factor))}

modbus_convert_int8_unsigned(registers, scaling_factor, result) ==
    IF registers.null \/ result.null THEN {Ret(MODBUS_CONV_ERR_NULL_PTR, 0)}
    ELSE {Stored("u8", v, 1) :
            v \in CastDouble(TyU8, Scaled(IntOfC(Reg(registers, 0) % 256), scaling_factor))}

modbus_convert_int16_signed(registers, swap_bytes, scaling_factor, result) ==
    IF registers.null \/ result.null THEN {Ret(MODBUS_CONV_ERR_NULL_PTR, 0)}
    ELSE LET val == IF swap_bytes THEN swap_bytes_16(Reg(registers, 0)) ELSE Reg(registers, 0)
             signed_val == IF val > 32767 THEN val - 65536 ELSE val
         IN  {Stored("i16", v, 1) : v \in CastDouble(TyI16, Scaled(IntOfC(signed_val), scaling_factor))}

modbus_convert_int16_unsigned(registers, swap_bytes, scaling_factor, result) ==
    IF registers.null \/ result.null THEN {Ret(MODBUS_CONV_ERR_NULL_PTR, 0)}
    ELSE LET val == IF swap_bytes THEN swap_bytes_16(Reg(registers, 0)) ELSE Reg(registers, 0)
         IN  {Stored("u16", v, 1) : v \in CastDouble(TyU16, Scaled(IntOfC(val), scaling_factor))}

\* The switch of modbus_convert_int32: the 4 bytes, or <<>> on the default branch.
int32_reorder(registers, data_type) ==
    CASE data_type \in {MODBUS_INT32_SIGNED_ABCD, MODBUS_INT32_UNSIGNED_ABCD} ->
            regs_to_bytes(<<Reg(registers, 0), Reg(registers, 1)>>, 2)
      [] data_type \in {MODBUS_INT32_SIGNED_DCBA, MODBUS_INT32_UNSIGNED_DCBA} ->
            bytes_reverse(regs_to_bytes(<<Reg(registers, 1), Reg(registers, 0)>>, 2), 4)
      [] data_type \in {MODBUS_INT32_SIGNED_BADC, MODBUS_INT32_UNSIGNED_BADC} ->
            regs_to_bytes(<<swap_bytes_16(Reg(registers, 0)), swap_bytes_16(Reg(registers, 1))>>, 2)
      [] data_type \in {MODBUS_INT32_SIGNED_CDAB, MODBUS_INT32_UNSIGNED_CDAB} ->
            regs_to_bytes(<<Reg(registers, 1), Reg(registers, 0)>>, 2)
      [] OTHER -> <<>>

modbus_convert_int32(registers, data_type, scaling_factor, result) ==
    IF registers.null \/ result.null THEN {Ret(MODBUS_CONV_ERR_NULL_PTR, 0)}
    ELSE LET bytes == int32_reorder(registers, data_type)
             u32_val == BytesToUInt(bytes)
         IN  IF bytes = <<>> THEN {Ret(MODBUS_CONV_ERR_INVALID_TYPE, 0)}
             ELSE IF data_type >= MODBUS_INT32_UNSIGNED_ABCD /\ data_type <= MODBUS_INT32_UNSIGNED_CDAB
             THEN {Stored("u32", v, 2) :
                     v \in CastDouble(TyU32, Scaled(IntOf(FALSE, u32_val), scaling_factor))}
             ELSE {Stored("i32", v, 2) :
                     v \in CastDouble(TyI32, Scaled(ToSigned(u32_val, 32), scaling_factor))}

Regs4(registers, a, b, c, d) ==
    <<Reg(registers, a), Reg(registers, b), Reg(registers, c), Reg(registers, d)>>
Swapped4(regs) == [i \in 1 .. 4 |-> swap_bytes_16(regs[i])]

\* The switch of modbus_convert_int64: the 8 bytes, or <<>> on the default branch.
int64_reorder(registers, data_type) ==
    CASE data_type \in {MODBUS_INT64_SIGNED_ABCDEFGH, MODBUS_INT64_UNSIGNED_ABCDEFGH} ->
            regs_to_bytes(Regs4(registers, 0, 1, 2, 3), 4)
      [] data_type \in {MODBUS_INT64_SIGNED_HGFEDCBA, MODBUS_INT64_UNSIGNED_HGFEDCBA} ->
            bytes_reverse(regs_to_bytes(Regs4(registers, 3, 2, 1, 0), 4), 8)
      [] data_type \in {MODBUS_INT64_SIGNED_BADCFEHG, MODBUS_INT64_UNSIGNED_BADCFEHG} ->
            regs_to_bytes(Swapped4(Regs4(registers, 0, 1, 2, 3)), 4)
      [] data_type \in {MODBUS_INT64_SIGNED_CDABGHEF, MODBUS_INT64_UNSIGNED_CDABGHEF} ->
            regs_to_bytes(Regs4(registers, 1, 0, 3, 2), 4)
      [] data_type \in {MODBUS_INT64_SIGNED_DCBAHGFE, MODBUS_INT64_UNSIGNED_DCBAHGFE} ->
            bytes_reverse(regs_to_bytes(Swapped4(Regs4(registers, 3, 2, 1, 0)), 4), 8)
      [] data_type \in {MODBUS_INT64_SIGNED_GHEFCDAB, MODBUS_INT64_UNSIGNED_GHEFCDAB} ->
            bytes_reverse(regs_to_bytes(Regs4(registers, 3, 2, 1, 0), 4), 8)
      [] data_type \in {MODBUS_INT64_SIGNED_FEHGBADC, MODBUS_INT64_UNSIGNED_FEHGBADC} ->
            bytes_reverse(regs_to_bytes(Regs4(registers, 2, 3, 0, 1), 4), 8)
      [] data_type \in {MODBUS_INT64_SIGNED_EFGHABCD, MODBUS_INT64_UNSIGNED_EFGHABCD} ->
            bytes_reverse(regs_to_bytes(Swapped4(Regs4(registers, 2, 3, 0, 1)), 4), 8)
      [] OTHER -> <<>>

modbus_convert_int64(registers, data_type, scaling_factor, result) ==
    IF registers.null \/ result.null THEN {Ret(MODBUS_CONV_ERR_NULL_PTR, 0)}
    ELSE LET bytes == int64_reorder(registers, data_type)
             u64_val == BytesToUInt(bytes)
         IN  IF bytes = <<>> THEN {Ret(MODBUS_CONV_ERR_INVALID_TYPE, 0)}
             ELSE IF data_type >= MODBUS_INT64_UNSIGNED_ABCDEFGH /\ data_type <= MODBUS_INT64_UNSIGNED_EFGHABCD
             THEN {Stored("u64", v, 4) :
                     v \in CastDouble(TyU64, Scaled(IntOf(FALSE, u64_val), scaling_factor))}
             ELSE {Stored("i64", v, 4) :
                     v \in CastDouble(TyI64, Scaled(ToSigned(u64_val, 64), scaling_factor))}

\* A faulty variant of float32_reorder: the case is chosen by the tag's position
\* in the 32-bit integer enumerators' order (ABCD, DCBA, BADC, CDAB).
float32_reorder_enum_order(registers, data_type) ==
    IF data_type >= MODBUS_IEEE_FLOAT32_ABCD /\ data_type <= MODBUS_IEEE_FLOAT32_BADC
    THEN int32_reorder(registers,
                       MODBUS_INT32_UNSIGNED_ABCD + (data_type - MODBUS_IEEE_FLOAT32_ABCD))
    ELSE <<>>
\* The switch of modbus_convert_float32.
float32_reorder(registers, data_type) ==
    CASE data_type = MODBUS_IEEE_FLOAT32_ABCD ->
            regs_to_bytes(<<Reg(registers, 0), Reg(registers, 1)>>, 2)
      [] data_type = MODBUS_IEEE_FLOAT32_CDAB ->
            regs_to_bytes(<<Reg(registers, 1), Reg(registers, 0)>>, 2)
      [] data_type = MODBUS_IEEE_FLOAT32_DCBA ->
            bytes_reverse(regs_to_bytes(<<Reg(registers, 1), Reg(registers, 0)>>, 2), 4)
      [] data_type = MODBUS_IEEE_FLOAT32_BADC ->
            regs_to_bytes(<<swap_bytes_16(Reg(registers, 0)), swap_bytes_16(Reg(registers, 1))>>, 2)
      [] OTHER -> <<>>

\* memcpy(&f32_val, &u32_val, 4): the float whose encoding is u32_val.
FloatOfBits(fmt, u) == NatToBytes(u, FmtBytes(fmt))

modbus_convert_float32(registers, data_type, scaling_factor, result) ==
    IF registers.null \/ result.null THEN {Ret(MODBUS_CONV_ERR_NULL_PTR, 0)}
    ELSE LET bytes == float32_reorder(registers, data_type)
             u32_val == BytesToUInt(bytes)
         IN  IF bytes = <<>> THEN {Ret(MODBUS_CONV_ERR_INVALID_TYPE, 0)}
             ELSE {Stored("f32", FloatVal(f), 2) :
                     f \in FloatScale(Binary32, FloatOfBits(Binary32, u32_val), scaling_factor)}

\* The switch of modbus_convert_float64.
float64_reorder(registers, data_type) ==
    CASE data_type = MODBUS_IEEE_FLOAT64_ABCDEFGH ->
            regs_to_bytes(Regs4(registers, 0, 1, 2, 3), 4)
      [] data_type = MODBUS_IEEE_FLOAT64_HGFEDCBA ->
            bytes_reverse(regs_to_bytes(Regs4(registers, 3, 2, 1, 0), 4), 8)
      [] data_type = MODBUS_IEEE_FLOAT64_BADCFEHG ->
            regs_to_bytes(Swapped4(Regs4(registers, 0, 1, 2, 3)), 4)
      [] data_type = MODBUS_IEEE_FLOAT64_CDABGHEF ->
            regs_to_bytes(Regs4(registers, 1, 0, 3, 2), 4)
      [] data_type = MODBUS_IEEE_FLOAT64_DCBAHGFE ->
            bytes_reverse(regs_to_bytes(Swapped4(Regs4(registers, 3, 2, 1, 0)), 4), 8)
      [] data_type = MODBUS_IEEE_FLOAT64_GHEFCDAB ->
            bytes_reverse(regs_to_bytes(Regs4(registers, 3, 2, 1, 0), 4), 8)
      [] data_type = MODBUS_IEEE_FLOAT64_FEHGBADC ->
            bytes_reverse(regs_to_bytes(Regs4(registers, 2, 3, 0, 1), 4), 8)
      [] data_type = MODBUS_IEEE_FLOAT64_EFGHABCD ->
            bytes_reverse(regs_to_bytes(Swapped4(Regs4(registers, 2, 3, 0, 1)), 4), 8)
      [] OTHER -> <<>>

modbus_convert_float64(registers, data_type, scaling_factor, result) ==
    IF registers.null \/ result.null THEN {Ret(MODBUS_CONV_ERR_NULL_PTR, 0)}
    ELSE LET bytes == float64_reorder(registers, data_type)
             u64_val == BytesToUInt(bytes)
         IN  IF bytes = <<>> THEN {Ret(MODBUS_CONV_ERR_INVALID_TYPE, 0)}
             ELSE {Stored("f64", FloatVal(f), 4) :
                     f \in FloatScale(Binary64, FloatOfBits(Binary64, u64_val), scaling_factor)}

(***************************************************************************)
(* The generic entry point                                                 *)
(***************************************************************************)
\* A faulty variant of modbus_convert: reg_count is tested before the pointers.
modbus_convert_count_first(registers, reg_count, data_type, bit_pos, scaling_factor, result) ==
    IF reg_count = 0 THEN {Ret(MODBUS_CONV_ERR_INSUFF_REGS, 0)}
    ELSE IF registers.null \/ result.null THEN {Ret(MODBUS_CONV_ERR_NULL_PTR, 0)}
    ELSE IF data_type = MODBUS_BIT_BOOLEAN
    THEN modbus_convert_bit_bool(registers, bit_pos, result)
    ELSE IF data_type = MODBUS_INT8_SIGNED
    THEN modbus_convert_int8_signed(registers, scaling_factor, result)
    ELSE IF data_type = MODBUS_INT8_UNSIGNED
    THEN modbus_convert_int8_unsigned(registers, scaling_factor, result)
    ELSE IF data_type = MODBUS_INT16_SIGNED_AB
    THEN modbus_convert_int16_signed(registers, FALSE, scaling_factor, result)
    ELSE IF data_type = MODBUS_INT16_SIGNED_BA
    THEN modbus_convert_int16_signed(registers, TRUE, scaling_factor, result)
    ELSE IF data_type = MODBUS_INT16_UNSIGNED_AB
    THEN modbus_convert_int16_unsigned(registers, FALSE, scaling_factor, result)
    ELSE IF data_type = MODBUS_INT16_UNSIGNED_BA
    THEN modbus_convert_int16_unsigned(registers, TRUE, scaling_factor, result)
    ELSE IF data_type >= MODBUS_INT32_SIGNED_ABCD /\ data_type <= MODBUS_INT32_UNSIGNED_CDAB
    THEN modbus_convert_int32(registers, data_type, scaling_factor, result)
    ELSE IF data_type >= MODBUS_INT64_SIGNED_ABCDEFGH /\ data_type <= MODBUS_INT64_UNSIGNED_EFGHABCD
    THEN modbus_convert_int64(registers, data_type, scaling_factor, result)
    ELSE IF data_type >= MODBUS_IEEE_FLOAT32_ABCD /\ data_type <= MODBUS_IEEE_FLOAT32_BADC
    THEN modbus_convert_float32(registers, data_type, scaling_factor, result)
    ELSE IF data_type >= MODBUS_IEEE_FLOAT64_ABCDEFGH /\ data_type <= MODBUS_IEEE_FLOAT64_EFGHABCD
    THEN modbus_convert_float64(registers, data_type, scaling_factor, result)
    ELSE {Ret(MODBUS_CONV_ERR_INVALID_TYPE, 0)}

\* A faulty variant of modbus_convert: INT16_SIGNED_BA is decoded without the
\* byte exchange.
modbus_convert_ba_unswapped(registers, reg_count, data_type, bit_pos, scaling_factor, result) ==
    IF registers.null \/ result.null THEN {Ret(MODBUS_CONV_ERR_NULL_PTR, 0)}
    ELSE IF reg_count = 0 THEN {Ret(MODBUS_CONV_ERR_INSUFF_REGS, 0)}
    ELSE IF data_type = MODBUS_BIT_BOOLEAN
    THEN modbus_convert_bit_bool(registers, bit_pos, result)
    ELSE IF data_type = MODBUS_INT8_SIGNED
    THEN modbus_convert_int8_signed(registers, scaling_factor, result)
    ELSE IF data_type = MODBUS_INT8_UNSIGNED
    THEN modbus_convert_int8_unsigned(registers, scaling_factor, result)
    ELSE IF data_type = MODBUS_INT16_SIGNED_AB
    THEN modbus_convert_int16_signed(registers, FALSE, scaling_factor, result)
    ELSE IF data_type = MODBUS_INT16_SIGNED_BA
    THEN modbus_convert_int16_signed(registers, FALSE, scaling_factor, result)
    ELSE IF data_type = MODBUS_INT16_UNSIGNED_AB
    THEN modbus_convert_int16_unsigned(registers, FALSE, scaling_factor, result)
    ELSE IF data_type = MODBUS_INT16_UNSIGNED_BA
    THEN modbus_convert_int16_unsigned(registers, TRUE, scaling_factor, result)
    ELSE IF data_type >= MODBUS_INT32_SIGNED_ABCD /\ data_type <= MODBUS_INT32_UNSIGNED_CDAB
    THEN modbus_convert_int32(registers, data_type, scaling_factor, result)
    ELSE IF data_type >= MODBUS_INT64_SIGNED_ABCDEFGH /\ data_type <= MODBUS_INT64_UNSIGNED_EFGHABCD
    THEN modbus_convert_int64(registers, data_type, scaling_factor, result)
    ELSE IF data_type >= MODBUS_IEEE_FLOAT32_ABCD /\ data_type <= MODBUS_IEEE_FLOAT32_BADC
    THEN modbus_convert_float32(registers, data_type, scaling_factor, result)
    ELSE IF data_type >= MODBUS_IEEE_FLOAT64_ABCDEFGH /\ data_type <= MODBUS_IEEE_FLOAT64_EFGHABCD
    THEN modbus_convert_float64(registers, data_type, scaling_factor, result)
    ELSE {Ret(MODBUS_CONV_ERR_INVALID_TYPE, 0)}

modbus_convert(registers, reg_count, data_type, bit_pos, scaling_factor, result) ==
    IF registers.null \/ result.null THEN {Ret(MODBUS_CONV_ERR_NULL_PTR, 0)}
    ELSE IF reg_count = 0 THEN {Ret(MODBUS_CONV_ERR_INSUFF_REGS, 0)}
    ELSE IF data_type = MODBUS_BIT_BOOLEAN
    THEN modbus_convert_bit_bool(registers, bit_pos, result)
    ELSE IF data_type = MODBUS_INT8_SIGNED
    THEN modbus_convert_int8_signed(registers, scaling_factor, result)
    ELSE IF data_type = MODBUS_INT8_UNSIGNED
    THEN modbus_convert_int8_unsigned(registers, scaling_factor, result)
    ELSE IF data_type = MODBUS_INT16_SIGNED_AB
    THEN modbus_convert_int16_signed(registers, FALSE, scaling_factor, result)
    ELSE IF data_type = MODBUS_INT16_SIGNED_BA
    THEN modbus_convert_int16_signed(registers, TRUE, scaling_factor, result)
    ELSE IF data_type = MODBUS_INT16_UNSIGNED_AB
    THEN modbus_convert_int16_unsigned(registers, FALSE, scaling_factor, result)
    ELSE IF data_type = MODBUS_INT16_UNSIGNED_BA
    THEN modbus_convert_int16_unsigned(registers, TRUE, scaling_factor, result)
    ELSE IF data_type >= MODBUS_INT32_SIGNED_ABCD /\ data_type <= MODBUS_INT32_UNSIGNED_CDAB
    THEN modbus_convert_int32(registers, data_type, scaling_factor, result)
    ELSE IF data_type >= MODBUS_INT64_SIGNED_ABCDEFGH /\ data_type <= MODBUS_INT64_UNSIGNED_EFGHABCD
    THEN modbus_convert_int64(registers, data_type, scaling_factor, result)
    ELSE IF data_type >= MODBUS_IEEE_FLOAT32_ABCD /\ data_type <= MODBUS_IEEE_FLOAT32_BADC
    THEN modbus_convert_float32(registers, data_type, scaling_factor, result)
    ELSE IF data_type >= MODBUS_IEEE_FLOAT64_ABCDEFGH /\ data_type <= MODBUS_IEEE_FLOAT64_EFGHABCD
    THEN modbus_convert_float64(registers, data_type, scaling_factor, result)
    ELSE {Ret(MODBUS_CONV_ERR_INVALID_TYPE, 0)}

(***************************************************************************)
(* Inputs                                                                  *)
(***************************************************************************)
\* Tags tried beyond each end of a range of enumerators.
ExtraTypes == 1
\* Bit positions 0 .. MaxBitPos are tried, and the largest uint8_t.
MaxBitPos == 17
UINT8_MAX == 255

TypesAround(lo, hi) == (lo - ExtraTypes) .. (hi + ExtraTypes)
DataTypeInputs == TypesAround(MODBUS_BIT_BOOLEAN, MODBUS_IEEE_FLOAT64_EFGHABCD)
BitPositions == (0 .. MaxBitPos) \cup {UINT8_MAX}
\* bit_pos values tried with a tag: all of them for the boolean type.
BitPosInputs(data_type) ==
    IF data_type = MODBUS_BIT_BOOLEAN THEN BitPositions ELSE {0, UINT8_MAX}

\* Scaling factors 1.0, 2.0, 0.5, -1.0 and 1.5.
One == [num |-> 1, den |-> 1]
Scalings ==
    {One, [num |-> 2, den |-> 1], [num |-> 1, den |-> 2], [num |-> -1, den |-> 1],
     [num |-> 3, den |-> 2]}

\* Register words, in hexadecimal digits.
Hex(a, b, c, d) == ((a * 16 + b) * 16 + c) * 16 + d
x0000 == Hex(0, 0, 0, 0)
xFFFF == Hex(15, 15, 15, 15)
x1234 == Hex(1, 2, 3, 4)
x5678 == Hex(5, 6, 7, 8)
x9ABC == Hex(9, 10, 11, 12)
xDEF0 == Hex(13, 14, 15, 0)

\* The buffers tried with every entry point: empty, 1, 2, 3, 4 and 5 words.
Words == {x0000, Hex(0, 0, 15, 15), x1234, Hex(8, 0, 0, 0), xFFFF}
Buffers ==
    {<<>>} \cup {<<a>> : a \in Words}
    \cup {<<a, b>> : a \in {x0000, x1234, xFFFF}, b \in {x0000, x5678, xFFFF}}
    \cup {<<x1234, x5678, x9ABC>>}
    \cup {<<a, b, c, d>> : a \in {x0000, x1234, xFFFF}, b \in {x0000, x5678},
                           c \in {x9ABC, xFFFF}, d \in {Hex(0, 0, 0, 1), xDEF0}}
    \cup {<<x1234, x5678, x9ABC, xDEF0, xFFFF>>}

\* The buffers tried with the specialized decoders alone.
Words1 ==
    {x0000, Hex(0, 0, 0, 1), Hex(0, 0, 7, 15), Hex(0, 0, 8, 0), Hex(0, 0, 15, 15), x1234,
     Hex(7, 15, 15, 15), Hex(8, 0, 0, 0), Hex(10, 5, 5, 10), Hex(15, 15, 0, 0),
     Hex(15, 15, 7, 15), xFFFF}
Words2 ==
    {x0000, Hex(0, 0, 0, 1), Hex(0, 0, 8, 0), x1234, x5678, Hex(3, 15, 8, 0),
     Hex(7, 15, 7, 15), Hex(7, 15, 8, 0), Hex(7, 15, 10, 0), Hex(7, 15, 15, 15),
     Hex(8, 0, 0, 0), xFFFF}
Words4a ==
    {x0000, Hex(0, 0, 2, 0), x1234, Hex(3, 15, 15, 0), Hex(7, 15, 15, 4),
     Hex(7, 15, 15, 15), Hex(8, 0, 0, 0), xFFFF}
Words4d == {x0000, Hex(0, 0, 0, 1), xDEF0, xFFFF}
Middle4 == {<<x0000, x0000>>, <<x5678, x9ABC>>, <<xFFFF, xFFFF>>}
DecoderBuffers ==
    {<<>>} \cup {<<a>> : a \in Words1} \cup {<<a, b>> : a \in Words2, b \in Words2}
    \cup {<<x1234, x5678, x9ABC>>}
    \cup {<<a, m[1], m[2], d>> : a \in Words4a, m \in Middle4, d \in Words4d}
    \cup {<<x1234, x5678, x9ABC, xDEF0, xFFFF>>}

\* The buffers tried with a null pointer among the arguments.
NullCallBuffers == {<<>>, <<x1234>>, <<x1234, x5678, x9ABC, xDEF0>>}

\* What a read past the end of the buffer can give.
GarbageWords == {x0000, xFFFF}

\* The memory a call can see when it reads up to n registers: the buffer, then
\* (only if the buffer is shorter) arbitrary words.
Memory(buf, n) ==
    IF Len(buf) >= n THEN {buf}
    ELSE {buf \o junk : junk \in [1 .. (n - Len(buf)) -> GarbageWords]}

\* Registers each family of decoders indexes.
WordsOf(data_type) ==
    IF data_type >= MODBUS_INT32_SIGNED_ABCD /\ data_type <= MODBUS_INT32_UNSIGNED_CDAB THEN 2
    ELSE IF data_type >= MODBUS_IEEE_FLOAT32_ABCD /\ data_type <= MODBUS_IEEE_FLOAT32_BADC THEN 2
    ELSE IF data_type >= MODBUS_INT64_SIGNED_ABCDEFGH /\ data_type <= MODBUS_INT64_UNSIGNED_EFGHABCD THEN 4
    ELSE IF data_type >= MODBUS_IEEE_FLOAT64_ABCDEFGH /\ data_type <= MODBUS_IEEE_FLOAT64_EFGHABCD THEN 4
    ELSE 1

\* The pointers of a call, as the caller passes them.
RegistersArg(mem) == IF ptrs.registers = "null" THEN NULL ELSE RegPtr(mem)
ResultArg == IF ptrs.result = "null" THEN NULL ELSE ResPtr

NoVal == [none |-> TRUE]
EmptySlot == [member |-> "none", val |-> NoVal]

(***************************************************************************)
(* The state machine: the caller's memory, then one call.                  *)
(***************************************************************************)
InitFrom(buffers) ==
    /\ \/ buffer \in buffers /\ ptrs = [registers |-> "ok", result |-> "ok"]
       \/ /\ buffer \in NullCallBuffers
          /\ ptrs \in [registers : {"ok", "null"}, result : {"ok", "null"}]
    /\ slot = EmptySlot
    /\ call = [fn |-> "none"]
    /\ rc = MODBUS_CONV_OK
    /\ nread = 0
    /\ pc = "ready"
    /\ threads = <<>>

Init == InitFrom(Buffers)
InitDecode == InitFrom(DecoderBuffers)

\* The call `args` returned `out`: the store, if any, lands in the caller's union.
Return(args, out) ==
    /\ pc' = "done"
    /\ call' = args
    /\ rc' = out.rc
    /\ nread' = out.nread
    /\ slot' = IF out.store = <<>> THEN slot ELSE out.store[1]
    /\ UNCHANGED <<buffer, ptrs, threads>>

CallConvert ==
    /\ pc = "ready"
    /\ \E data_type \in DataTypeInputs, scaling_factor \in Scalings :
         \E bit_pos \in BitPosInputs(data_type), mem \in Memory(buffer, WordsOf(data_type)) :
           \E out \in modbus_convert(RegistersArg(mem), Len(buffer), data_type, bit_pos,
                                     scaling_factor, ResultArg) :
             Return([fn |-> "modbus_convert", reg_count |-> Len(buffer), data_type |-> data_type,
                     bit_pos |-> bit_pos, scaling_factor |-> scaling_factor], out)

CallBitBool ==
    /\ pc = "ready"
    /\ \E bit_pos \in BitPositions, mem \in Memory(buffer, 1) :
         \E out \in modbus_convert_bit_bool(RegistersArg(mem), bit_pos, ResultArg) :
           Return([fn |-> "modbus_convert_bit_bool", bit_pos |-> bit_pos], out)

CallInt8Signed ==
    /\ pc = "ready"
    /\ \E scaling_factor \in Scalings, mem \in Memory(buffer, 1) :
         \E out \in modbus_convert_int8_signed(RegistersArg(mem), scaling_factor, ResultArg) :
           Return([fn |-> "modbus_convert_int8_signed", scaling_factor |-> scaling_factor], out)

CallInt8Unsigned ==
    /\ pc = "ready"
    /\ \E scaling_factor \in Scalings, mem \in Memory(buffer, 1) :
         \E out \in modbus_convert_int8_unsigned(RegistersArg(mem), scaling_factor, ResultArg) :
           Return([fn |-> "modbus_convert_int8_unsigned", scaling_factor |-> scaling_factor], out)

CallInt16Signed ==
    /\ pc = "ready"
    /\ \E swap_bytes \in BOOLEAN, scaling_factor \in Scalings, mem \in Memory(buffer, 1) :
         \E out \in modbus_convert_int16_signed(RegistersArg(mem), swap_bytes, scaling_factor,
                                                ResultArg) :
           Return([fn |-> "modbus_convert_int16_signed", swap_bytes |-> swap_bytes,
                   scaling_factor |-> scaling_factor], out)

CallInt16Unsigned ==
    /\ pc = "ready"
    /\ \E swap_bytes \in BOOLEAN, scaling_factor \in Scalings, mem \in Memory(buffer, 1) :
         \E out \in modbus_convert_int16_unsigned(RegistersArg(mem), swap_bytes, scaling_factor,
                                                  ResultArg) :
           Return([fn |-> "modbus_convert_int16_unsigned", swap_bytes |-> swap_bytes,
                   scaling_factor |-> scaling_factor], out)

CallInt32 ==
    /\ pc = "ready"
    /\ \E data_type \in TypesAround(MODBUS_INT32_SIGNED_ABCD, MODBUS_INT32_UNSIGNED_CDAB),
          scaling_factor \in Scalings, mem \in Memory(buffer, 2) :
         \E out \in modbus_convert_int32(RegistersArg(mem), data_type, scaling_factor, ResultArg) :
           Return([fn |-> "modbus_convert_int32", data_type |-> data_type,
                   scaling_factor |-> scaling_factor], out)

CallInt64 ==
    /\ pc = "ready"
    /\ \E data_type \in TypesAround(MODBUS_INT64_SIGNED_ABCDEFGH, MODBUS_INT64_UNSIGNED_EFGHABCD),
          scaling_factor \in Scalings, mem \in Memory(buffer, 4) :
         \E out \in modbus_convert_int64(RegistersArg(mem), data_type, scaling_factor, ResultArg) :
           Return([fn |-> "modbus_convert_int64", data_type |-> data_type,
                   scaling_factor |-> scaling_factor], out)

CallFloat32 ==
    /\ pc = "ready"
    /\ \E data_type \in TypesAround(MODBUS_IEEE_FLOAT32_ABCD, MODBUS_IEEE_FLOAT32_BADC),
          scaling_factor \in Scalings, mem \in Memory(buffer, 2) :
         \E out \in modbus_convert_float32(RegistersArg(mem), data_type, scaling_factor, ResultArg) :
           Return([fn |-> "modbus_convert_float32", data_type |-> data_type,
                   scaling_factor |-> scaling_factor], out)

CallFloat64 ==
    /\ pc = "ready"
    /\ \E data_type \in TypesAround(MODBUS_IEEE_FLOAT64_ABCDEFGH, MODBUS_IEEE_FLOAT64_EFGHABCD),
          scaling_factor \in Scalings, mem \in Memory(buffer, 4) :
         \E out \in modbus_convert_float64(RegistersArg(mem), data_type, scaling_factor, ResultArg) :
           Return([fn |-> "modbus_convert_float64", data_type |-> data_type,
                   scaling_factor |-> scaling_factor], out)

Next ==
    \/ CallConvert
    \/ CallBitBool
    \/ CallInt8Signed
    \/ CallInt8Unsigned
    \/ CallInt16Signed
    \/ CallInt16Unsigned
    \/ CallInt32
    \/ CallInt64
    \/ CallFloat32
    \/ CallFloat64

\* Every entry point, on the buffers of Buffers.
Spec == Init /\ [][Next]_vars

NextDecode ==
    \/ CallBitBool
    \/ CallInt8Signed
    \/ CallInt8Unsigned
    \/ CallInt16Signed
    \/ CallInt16Unsigned
    \/ CallInt32
    \/ CallInt64
    \/ CallFloat32
    \/ CallFloat64

\* The specialized decoders, on the buffers of DecoderBuffers.
SpecDecode == InitDecode /\ [][NextDecode]_vars

(***************************************************************************)
(* Concurrent callers.  Each thread makes one call on the shared, read-only *)
(* register buffer with a result slot of its own, and the calls advance one *)
(* statement (one loop iteration inside the helpers) at a time.             *)
(***************************************************************************)
NumThreads == 2
Threads == 1 .. NumThreads

\* The calls the threads make: 32-bit decodings of every kind of case of the
\* switch, and a 16-bit one.
ThreadCall(fn, data_type, swap_bytes, scaling_factor) ==
    [fn |-> fn, data_type |-> data_type, swap_bytes |-> swap_bytes,
     scaling_factor |-> scaling_factor]
ThreadCalls ==
    {ThreadCall("modbus_convert_int32", d, FALSE, One) :
        d \in {MODBUS_INT32_SIGNED_ABCD, MODBUS_INT32_UNSIGNED_DCBA, MODBUS_INT32_SIGNED_BADC,
               MODBUS_INT32_UNSIGNED_CDAB, MODBUS_INT64_SIGNED_ABCDEFGH}}
    \cup {ThreadCall("modbus_convert_int32", MODBUS_INT32_SIGNED_BADC, FALSE,
                     [num |-> 2, den |-> 1]),
          ThreadCall("modbus_convert_int16_unsigned", MODBUS_INT16_UNSIGNED_BA, TRUE, One)}
ThreadBuffers == {<<x1234, x5678>>, <<xFFFF, Hex(8, 0, 0, 1)>>}

\* A thread at the entry of its call: the locals are not yet written.
Entered(c) ==
    [call |-> c, pc |-> "entry", regs |-> <<0, 0>>, bytes |-> <<0, 0, 0, 0>>, i |-> 0,
     reverse |-> FALSE, val |-> NatZero, rc |-> MODBUS_CONV_OK, slot |-> EmptySlot]

InitThreads ==
    /\ buffer \in ThreadBuffers
    /\ ptrs = [registers |-> "ok", result |-> "ok"]
    /\ slot = EmptySlot
    /\ call = [fn |-> "none"]
    /\ rc = MODBUS_CONV_OK
    /\ nread = 0
    /\ pc = "ready"
    /\ threads \in {[t \in Threads |-> Entered(cs[t])] : cs \in [Threads -> ThreadCalls]}

\* A faulty variant of Frame: the arrays are static, one copy for all calls.
FrameStatic(t) == 1
\* The activation that holds the arrays bytes and regs of thread t's call: they
\* are automatic, so each call has its own.
Frame(t) == t

\* The switch of modbus_convert_int32 up to the call of regs_to_bytes: the
\* value given to regs, or <<>> on the default branch.
int32_regs(registers, data_type) ==
    CASE data_type \in {MODBUS_INT32_SIGNED_ABCD, MODBUS_INT32_UNSIGNED_ABCD} ->
            <<Reg(registers, 0), Reg(registers, 1)>>
      [] data_type \in {MODBUS_INT32_SIGNED_DCBA, MODBUS_INT32_UNSIGNED_DCBA} ->
            <<Reg(registers, 1), Reg(registers, 0)>>
      [] data_type \in {MODBUS_INT32_SIGNED_BADC, MODBUS_INT32_UNSIGNED_BADC} ->
            <<swap_bytes_16(Reg(registers, 0)), swap_bytes_16(Reg(registers, 1))>>
      [] data_type \in {MODBUS_INT32_SIGNED_CDAB, MODBUS_INT32_UNSIGNED_CDAB} ->
            <<Reg(registers, 1), Reg(registers, 0)>>
      [] OTHER -> <<>>
\* The cases of that switch that call bytes_reverse.
int32_reverses(data_type) ==
    data_type \in {MODBUS_INT32_SIGNED_DCBA, MODBUS_INT32_UNSIGNED_DCBA}

\* Thread t returns code with what `store` holds put into its result slot.
ThreadReturn(t, out) ==
    threads' = [threads EXCEPT ![t].pc = "done", ![t].rc = out.rc,
                               ![t].slot = IF out.store = <<>> THEN @ ELSE out.store[1]]

\* if (!registers || !result) return MODBUS_CONV_ERR_NULL_PTR;
ThreadEnter(t) ==
    /\ threads[t].pc = "entry"
    /\ IF RegistersArg(buffer).null \/ ResultArg.null
       THEN ThreadReturn(t, Ret(MODBUS_CONV_ERR_NULL_PTR, 0))
       ELSE threads' = [threads EXCEPT ![t].pc =
                IF threads[t].call.fn = "modbus_convert_int32" THEN "switch" ELSE "load"]
    /\ UNCHANGED <<buffer, ptrs, slot, call, rc, nread, pc>>

\* modbus_convert_int32: the case of the switch fills regs, or returns.
ThreadSwitch(t) ==
    /\ threads[t].pc = "switch"
    /\ LET regs == int32_regs(RegPtr(buffer), threads[t].call.data_type)
       IN  IF regs = <<>> THEN ThreadReturn(t, Ret(MODBUS_CONV_ERR_INVALID_TYPE, 0))
           ELSE threads' = [threads EXCEPT
                    ![Frame(t)].regs = regs,
                    ![t].reverse = int32_reverses(threads[t].call.data_type),
                    ![t].i = 0, ![t].pc = "regs_to_bytes"]
    /\ UNCHANGED <<buffer, ptrs, slot, call, rc, nread, pc>>

\* regs_to_bytes(regs, 2, bytes): one iteration of its loop.
ThreadRegsToBytes(t) ==
    /\ threads[t].pc = "regs_to_bytes"
    /\ LET i == threads[t].i
           f == threads[Frame(t)]
       IN  IF i < 2
           THEN threads' = [threads EXCEPT
                    ![Frame(t)].bytes = [f.bytes EXCEPT ![2 * i + 1] = (f.regs[i + 1] \div 256) % 256,
                                                        ![2 * i + 2] = f.regs[i + 1] % 256],
                    ![t].i = i + 1]
           ELSE threads' = [threads EXCEPT
                    ![t].i = 0,
                    ![t].pc = IF threads[t].reverse THEN "bytes_reverse" ELSE "assemble"]
    /\ UNCHANGED <<buffer, ptrs, slot, call, rc, nread, pc>>

\* bytes_reverse(bytes, 4): one iteration of its loop.
ThreadBytesReverse(t) ==
    /\ threads[t].pc = "bytes_reverse"
    /\ LET i == threads[t].i
           f == threads[Frame(t)]
       IN  IF i < 4 \div 2
           THEN threads' = [threads EXCEPT
                    ![Frame(t)].bytes = [f.bytes EXCEPT ![i + 1] = f.bytes[4 - i],
                                                        ![4 - i] = f.bytes[i + 1]],
                    ![t].i = i + 1]
           ELSE threads' = [threads EXCEPT ![t].pc = "assemble"]
    /\ UNCHANGED <<buffer, ptrs, slot, call, rc, nread, pc>>

\* u32_val = bytes[0] << 24 | bytes[1] << 16 | bytes[2] << 8 | bytes[3]
ThreadAssemble(t) ==
    /\ threads[t].pc = "assemble"
    /\ threads' = [threads EXCEPT ![t].val = BytesToUInt(threads[Frame(t)].bytes),
                                  ![t].pc = "store"]
    /\ UNCHANGED <<buffer, ptrs, slot, call, rc, nread, pc>>

\* modbus_convert_int16_unsigned: val = swap_bytes ? swap_bytes_16(registers[0]) : registers[0]
ThreadLoad(t) ==
    /\ threads[t].pc = "load"
    /\ LET w == Reg(RegPtr(buffer), 0)
       IN  threads' = [threads EXCEPT
               ![t].val = NatOfInt(IF threads[t].call.swap_bytes THEN swap_bytes_16(w) ELSE w),
               ![t].pc = "store"]
    /\ UNCHANGED <<buffer, ptrs, slot, call, rc, nread, pc>>

\* The scaling, the store into the result and return MODBUS_CONV_OK.
ThreadStore(t) ==
    /\ threads[t].pc = "store"
    /\ LET c == threads[t].call
           val == threads[t].val
       IN  IF c.fn = "modbus_convert_int16_unsigned"
           THEN \E v \in CastDouble(TyU16, Scaled(IntOf(FALSE, val), c.scaling_factor)) :
                    ThreadReturn(t, Stored("u16", v, 1))
           ELSE IF c.data_type >= MODBUS_INT32_UNSIGNED_ABCD
                   /\ c.data_type <= MODBUS_INT32_UNSIGNED_CDAB
           THEN \E v \in CastDouble(TyU32, Scaled(IntOf(FALSE, val), c.scaling_factor)) :
                    ThreadReturn(t, Stored("u32", v, 2))
           ELSE \E v \in CastDouble(TyI32, Scaled(ToSigned(val, 32), c.scaling_factor)) :
                    ThreadReturn(t, Stored("i32", v, 2))
    /\ UNCHANGED <<buffer, ptrs, slot, call, rc, nread, pc>>

NextThreads ==
    \/ \E t \in Threads : ThreadEnter(t)
    \/ \E t \in Threads : ThreadSwitch(t)
    \/ \E t \in Threads : ThreadRegsToBytes(t)
    \/ \E t \in Threads : ThreadBytesReverse(t)
    \/ \E t \in Threads : ThreadAssemble(t)
    \/ \E t \in Threads : ThreadLoad(t)
    \/ \E t \in Threads : ThreadStore(t)

\* Concurrent calls of modbus_convert_int32 and modbus_convert_int16_unsigned.
SpecThreads == InitThreads /\ [][NextThreads]_vars

(***************************************************************************)
(* Vocabulary of the properties                                            *)
(***************************************************************************)
ArgsOk == ptrs.registers = "ok" /\ ptrs.result = "ok"
Returned(fn) == pc = "done" /\ call.fn = fn
\* The call was given both pointers and a buffer of at least n registers.
ReturnedOn(fn, n) == Returned(fn) /\ ArgsOk /\ Len(buffer) >= n

\* The bytes of the first n registers in transmission order: A, B, C, ...
TxBytes(n) ==
    [i \in 1 .. 2 * n |->
        IF i % 2 = 1 THEN buffer[(i + 1) \div 2] \div 256 ELSE buffer[i \div 2] % 256]
\* The bytes a pattern name spells, the name given as letter numbers (A = 1).
Spell(name) == [i \in 1 .. Len(name) |-> TxBytes(Len(name) \div 2)[name[i]]]
UIntVal(bytes) == IntOf(FALSE, NatOfBytes(bytes))
Holds(member, val) == slot = [member |-> member, val |-> val]

\* C1: modbus_convert checks its arguments in a fixed order, whatever the tag,
\* bit position and scaling factor: a null registers or result pointer gives
\* NullPointer; otherwise reg_count = 0 gives InsufficientRegisters; otherwise a
\* tag outside the 43 enumerators gives InvalidType, and a tag among them never
\* gives InvalidType.
C1_ArgumentCheckOrder ==
    Returned("modbus_convert") =>
        IF ~ArgsOk THEN rc = MODBUS_CONV_ERR_NULL_PTR
        ELSE IF call.reg_count = 0 THEN rc = MODBUS_CONV_ERR_INSUFF_REGS
        ELSE IF call.data_type \notin DataTypes THEN rc = MODBUS_CONV_ERR_INVALID_TYPE
        ELSE rc # MODBUS_CONV_ERR_INVALID_TYPE

\* An empty register sequence with an unrecognized tag was answered InsufficientRegisters.
C1_Witness ==
    /\ Returned("modbus_convert") /\ ArgsOk
    /\ call.reg_count = 0 /\ call.data_type \notin DataTypes
    /\ rc = MODBUS_CONV_ERR_INSUFF_REGS

\* C2: boolean decoding, called directly or through modbus_convert with at least
\* one register: for bit_pos in 0..15 the call succeeds and stores true exactly
\* when bit bit_pos of the first register is 1, whatever the scaling factor; for
\* bit_pos in 16..255 it returns InvalidBitPosition.
BooleanCall ==
    \/ ReturnedOn("modbus_convert_bit_bool", 1)
    \/ ReturnedOn("modbus_convert", 1) /\ call.data_type = MODBUS_BIT_BOOLEAN
BitIsSet(word, n) == word % Pow2(n + 1) >= Pow2(n)

C2_BooleanDecoding ==
    BooleanCall =>
        IF call.bit_pos <= 15
        THEN rc = MODBUS_CONV_OK /\ Holds("bool_val", BoolVal(BitIsSet(buffer[1], call.bit_pos)))
        ELSE rc = MODBUS_CONV_ERR_INVALID_BIT

\* Bit 15 of 0x8000 was decoded as true through the generic entry point.
C2_Witness ==
    /\ BooleanCall /\ call.fn = "modbus_convert"
    /\ buffer[1] = Hex(8, 0, 0, 0) /\ call.bit_pos = 15
    /\ rc = MODBUS_CONV_OK /\ Holds("bool_val", BoolVal(TRUE))

\* C3: with scaling factor 1.0 the unsigned 16- and 32-bit decoders return the
\* input bytes in the order the pattern name spells, most significant first:
\* AB, BA, ABCD, BADC and CDAB.
C3_UnsignedPatterns ==
    /\ ReturnedOn("modbus_convert_int16_unsigned", 1) /\ call.scaling_factor = One =>
          /\ rc = MODBUS_CONV_OK
          /\ Holds("u16", UIntVal(Spell(IF call.swap_bytes THEN <<2, 1>> ELSE <<1, 2>>)))
    /\ ReturnedOn("modbus_convert_int32", 2) /\ call.scaling_factor = One =>
          /\ call.data_type = MODBUS_INT32_UNSIGNED_ABCD =>
                rc = MODBUS_CONV_OK /\ Holds("u32", UIntVal(Spell(<<1, 2, 3, 4>>)))
          /\ call.data_type = MODBUS_INT32_UNSIGNED_BADC =>
                rc = MODBUS_CONV_OK /\ Holds("u32", UIntVal(Spell(<<2, 1, 4, 3>>)))
          /\ call.data_type = MODBUS_INT32_UNSIGNED_CDAB =>
                rc = MODBUS_CONV_OK /\ Holds("u32", UIntVal(Spell(<<3, 4, 1, 2>>)))

\* [0x1234, 0x5678] was decoded as UNSIGNED_BADC to 0x34127856.
C3_Witness ==
    /\ ReturnedOn("modbus_convert_int32", 2) /\ call.scaling_factor = One
    /\ call.data_type = MODBUS_INT32_UNSIGNED_BADC
    /\ buffer = <<x1234, x5678>>
    /\ Holds("u32", UIntVal(<<3 * 16 + 4, 16 + 2, 7 * 16 + 8, 5 * 16 + 6>>))

\* C4: the 32-bit DCBA pattern is the full byte reversal of ABCD: with scaling
\* factor 1.0, [r0, r1] decoded as UNSIGNED_DCBA is the bytes D, C, B, A, which
\* is what ABCD gives on [byteswap(r1), byteswap(r0)]; and FLOAT32_DCBA
\* assembles the bit pattern D, C, B, A.
ReversedPair == RegPtr(<<swap_bytes_16(buffer[2]), swap_bytes_16(buffer[1])>>)

PatternName64(offset) ==
    CASE offset = 0 -> <<1, 2, 3, 4, 5, 6, 7, 8>>      \* ABCDEFGH
      [] offset = 1 -> <<8, 7, 6, 5, 4, 3, 2, 1>>      \* HGFEDCBA
      [] offset = 2 -> <<2, 1, 4, 3, 6, 5, 8, 7>>      \* BADCFEHG
      [] offset = 3 -> <<3, 4, 1, 2, 7, 8, 5, 6>>      \* CDABGHEF
      [] offset = 4 -> <<4, 3, 2, 1, 8, 7, 6, 5>>      \* DCBAHGFE
      [] offset = 5 -> <<7, 8, 5, 6, 3, 4, 1, 2>>      \* GHEFCDAB
      [] offset = 6 -> <<6, 5, 8, 7, 2, 1, 4, 3>>      \* FEHGBADC
      [] offset = 7 -> <<5, 6, 7, 8, 1, 2, 3, 4>>      \* EFGHABCD
IsInt64Signed(data_type) ==
    data_type >= MODBUS_INT64_SIGNED_ABCDEFGH /\ data_type <= MODBUS_INT64_SIGNED_EFGHABCD
IsInt64Unsigned(data_type) ==
    data_type >= MODBUS_INT64_UNSIGNED_ABCDEFGH /\ data_type <= MODBUS_INT64_UNSIGNED_EFGHABCD
Int64Offset(data_type) ==
    IF IsInt64Signed(data_type) THEN data_type - MODBUS_INT64_SIGNED_ABCDEFGH
    ELSE data_type - MODBUS_INT64_UNSIGNED_ABCDEFGH

C5_Int64PatternsSpellNames ==
    ReturnedOn("modbus_convert_int64", 4)
    /\ (IsInt64Signed(call.data_type) \/ IsInt64Unsigned(call.data_type)) =>
        BytesToUInt(int64_reorder(RegPtr(buffer), call.data_type))
            = NatOfBytes(Spell(PatternName64(Int64Offset(call.data_type))))

\* C6 (as amended): the float decoders reorder exactly as the integer decoders
\* of the same pattern name: FLOAT32_P assembles the 32-bit pattern that
\* INT32_UNSIGNED_P assembles and FLOAT64_P the 64-bit pattern that
\* INT64_UNSIGNED_P assembles; FLOAT32_ABCD on [hi, lo] assembles hi*65536 + lo,
\* and with scaling factor 1.0 it stores that same bit pattern, provided the
\* pattern is not a NaN.
Int32UnsignedOf(data_type) ==
    CASE data_type = MODBUS_IEEE_FLOAT32_ABCD -> MODBUS_INT32_UNSIGNED_ABCD
      [] data_type = MODBUS_IEEE_FLOAT32_CDAB -> MODBUS_INT32_UNSIGNED_CDAB
      [] data_type = MODBUS_IEEE_FLOAT32_DCBA -> MODBUS_INT32_UNSIGNED_DCBA
      [] data_type = MODBUS_IEEE_FLOAT32_BADC -> MODBUS_INT32_UNSIGNED_BADC
IsFloat32(data_type) ==
    data_type >= MODBUS_IEEE_FLOAT32_ABCD /\ data_type <= MODBUS_IEEE_FLOAT32_BADC
IsFloat64(data_type) ==
    data_type >= MODBUS_IEEE_FLOAT64_ABCDEFGH /\ data_type <= MODBUS_IEEE_FLOAT64_EFGHABCD
\* A binary32 encoding with exponent 255 and a non-zero fraction.
IsNaN32(b) == b[1] % 128 = 127 /\ b[2] >= 128 /\ (b[2] > 128 \/ b[3] > 0 \/ b[4] > 0)

FloatReordersAsInteger ==
    /\ ReturnedOn("modbus_convert_float32", 2) /\ IsFloat32(call.data_type) =>
          BytesToUInt(float32_reorder(RegPtr(buffer), call.data_type))
              = BytesToUInt(int32_reorder(RegPtr(buffer), Int32UnsignedOf(call.data_type)))
    /\ ReturnedOn("modbus_convert_float64", 4) /\ IsFloat64(call.data_type) =>
          BytesToUInt(float64_reorder(RegPtr(buffer), call.data_type))
              = BytesToUInt(int64_reorder(RegPtr(buffer),
                    MODBUS_INT64_UNSIGNED_ABCDEFGH + (call.data_type - MODBUS_IEEE_FLOAT64_ABCDEFGH)))
    /\ ReturnedOn("modbus_convert_float32", 2) /\ call.data_type = MODBUS_IEEE_FLOAT32_ABCD =>
          BytesToUInt(float32_reorder(RegPtr(buffer), call.data_type))
              = NatOfBytes(Spell(<<1, 2, 3, 4>>))

Float32AbcdCall ==
    /\ ReturnedOn("modbus_convert_float32", 2)
    /\ call.data_type = MODBUS_IEEE_FLOAT32_ABCD /\ call.scaling_factor = One

C6_FloatReordersAsInteger ==
    /\ FloatReordersAsInteger
    /\ Float32AbcdCall /\ ~IsNaN32(Spell(<<1, 2, 3, 4>>)) =>
          rc = MODBUS_CONV_OK /\ Holds("f32", FloatVal(Spell(<<1, 2, 3, 4>>)))

\* [0x3F80, 0x0000] was decoded as FLOAT32_ABCD to the bit pattern 0x3F800000.
C6_Witness ==
    /\ Float32AbcdCall /\ buffer = <<Hex(3, 15, 8, 0), x0000>>
    /\ Holds("f32", FloatVal(<<3 * 16 + 15, 128, 0, 0>>))

\* C6 as stated: the same, for every binary32 bit pattern.
C6_Original ==
    /\ FloatReordersAsInteger
    /\ Float32AbcdCall =>
          rc = MODBUS_CONV_OK /\ Holds("f32", FloatVal(Spell(<<1, 2, 3, 4>>)))

\* C7: with scaling factor 1.0 a signed decoder of width 8, 16 or 32 returns the
\* two's-complement reading of what the unsigned decoder of the same width and
\* pattern returns (u below 2^(w-1) stays u, otherwise u - 2^w); the 8-bit
\* decoders depend on the low byte of registers[0] only.
TwosComplement(u, w) ==
    IF NatLess(u, NatPow2(w - 1)) THEN IntOf(FALSE, u) ELSE IntOf(TRUE, NatSub(NatPow2(w), u))
LowByteOnly == RegPtr(<<buffer[1] % 256>>)
IsInt32Signed(data_type) ==
    data_type >= MODBUS_INT32_SIGNED_ABCD /\ data_type <= MODBUS_INT32_SIGNED_CDAB
IsInt32Unsigned(data_type) ==
    data_type >= MODBUS_INT32_UNSIGNED_ABCD /\ data_type <= MODBUS_INT32_UNSIGNED_CDAB

C7_SignedIsTwosComplement ==
    /\ ReturnedOn("modbus_convert_int8_signed", 1) /\ call.scaling_factor = One =>
          \A u \in modbus_convert_int8_unsigned(RegPtr(buffer), One, ResPtr) :
              rc = MODBUS_CONV_OK /\ Holds("i8", TwosComplement(u.store[1].val.mag, 8))
    /\ ReturnedOn("modbus_convert_int16_signed", 1) /\ call.scaling_factor = One =>
          \A u \in modbus_convert_int16_unsigned(RegPtr(buffer), call.swap_bytes, One, ResPtr) :
              rc = MODBUS_CONV_OK /\ Holds("i16", TwosComplement(u.store[1].val.mag, 16))
    /\ ReturnedOn("modbus_convert_int32", 2) /\ call.scaling_factor = One
       /\ IsInt32Signed(call.data_type) =>
          \A u \in modbus_convert_int32(RegPtr(buffer),
                       call.data_type + (MODBUS_INT32_UNSIGNED_ABCD - MODBUS_INT32_SIGNED_ABCD),
                       One, ResPtr) :
              rc = MODBUS_CONV_OK /\ Holds("i32", TwosComplement(u.store[1].val.mag, 32))
    /\ ReturnedOn("modbus_convert_int8_signed", 1) =>
          \E o \in modbus_convert_int8_signed(LowByteOnly, call.scaling_factor, ResPtr) :
              rc = o.rc /\ slot = o.store[1]
    /\ ReturnedOn("modbus_convert_int8_unsigned", 1) =>
          \E o \in modbus_convert_int8_unsigned(LowByteOnly, call.scaling_factor, ResPtr) :
              rc = o.rc /\ slot = o.store[1]

\* [0x00FF] was decoded as int8-signed with scaling 1.0 to -1.
C7_Witness ==
    /\ ReturnedOn("modbus_convert_int8_signed", 1) /\ call.scaling_factor = One
    /\ buffer = <<Hex(0, 0, 15, 15)>>
    /\ Holds("i8", IntOf(TRUE, NatOne))

\* The raw value an integer decoder call reads from the buffer, the target type
\* it stores and the union member it stores into.
IntegerCall ==
    \/ ReturnedOn("modbus_convert_int8_signed", 1)
    \/ ReturnedOn("modbus_convert_int8_unsigned", 1)
    \/ ReturnedOn("modbus_convert_int16_signed", 1)
    \/ ReturnedOn("modbus_convert_int16_unsigned", 1)
    \/ ReturnedOn("modbus_convert_int32", 2)
       /\ (IsInt32Signed(call.data_type) \/ IsInt32Unsigned(call.data_type))
    \/ ReturnedOn("modbus_convert_int64", 4)
       /\ (IsInt64Signed(call.data_type) \/ IsInt64Unsigned(call.data_type))
Word16 == IF call.swap_bytes THEN NatOfBytes(Spell(<<2, 1>>)) ELSE NatOfBytes(Spell(<<1, 2>>))
RawValue ==
    CASE call.fn = "modbus_convert_int8_signed" -> TwosComplement(NatOfInt(buffer[1] % 256), 8)
      [] call.fn = "modbus_convert_int8_unsigned" -> IntOf(FALSE, NatOfInt(buffer[1] % 256))
      [] call.fn = "modbus_convert_int16_signed" -> TwosComplement(Word16, 16)
      [] call.fn = "modbus_convert_int16_unsigned" -> IntOf(FALSE, Word16)
      [] call.fn = "modbus_convert_int32" ->
            LET u == BytesToUInt(int32_reorder(RegPtr(buffer), call.data_type))
            IN  IF IsInt32Signed(call.data_type) THEN TwosComplement(u, 32) ELSE IntOf(FALSE, u)
      [] call.fn = "modbus_convert_int64" ->
            LET u == BytesToUInt(int64_reorder(RegPtr(buffer), call.data_type))
            IN  IF IsInt64Signed(call.data_type) THEN TwosComplement(u, 64) ELSE IntOf(FALSE, u)
TargetType ==
    CASE call.fn = "modbus_convert_int8_signed" -> TyI8
      [] call.fn = "modbus_convert_int8_unsigned" -> TyU8
      [] call.fn = "modbus_convert_int16_signed" -> TyI16
      [] call.fn = "modbus_convert_int16_unsigned" -> TyU16
      [] call.fn = "modbus_convert_int32" ->
            IF IsInt32Signed(call.data_type) THEN TyI32 ELSE TyU32
      [] call.fn = "modbus_convert_int64" ->
            IF IsInt64Signed(call.data_type) THEN TyI64 ELSE TyU64
TargetMember ==
    CASE call.fn = "modbus_convert_int8_signed" -> "i8"
      [] call.fn = "modbus_convert_int8_unsigned" -> "u8"
      [] call.fn = "modbus_convert_int16_signed" -> "i16"
      [] call.fn = "modbus_convert_int16_unsigned" -> "u16"
      [] call.fn = "modbus_convert_int32" -> IF IsInt32Signed(call.data_type) THEN "i32" ELSE "u32"
      [] call.fn = "modbus_convert_int64" -> IF IsInt64Signed(call.data_type) THEN "i64" ELSE "u64"
\* v * k truncated toward zero, k a dyadic rational.
TruncatedProduct(v, k) ==
    LET mag == NatShr(NatMulSmall(v.mag, Abs(k.num)), Log2(k.den))
    IN  IntOf(v.neg # (k.num < 0), mag)
\* x reduced modulo 2^w into the range of the type of width w.
ReducedInto(ty, x) ==
    LET low == NatLow(x.mag, ty.bits)
        u   == IF x.neg /\ low # NatZero THEN NatSub(NatPow2(ty.bits), low) ELSE low
    IN  IF ty.signed THEN TwosComplement(u, ty.bits) ELSE IntOf(FALSE, u)

\* C8: scaling in the integer decoders never fails and wraps on overflow: every
\* integer decoder call returns Success; when the product of the raw value and
\* the scaling factor, truncated toward zero, fits the target type the result is
\* that product, and otherwise it is that product reduced modulo 2^w into the
\* target type's range.
C8_ScalingWrapsOnOverflow ==
    IntegerCall =>
        /\ rc = MODBUS_CONV_OK
        /\ Holds(TargetMember,
                 ReducedInto(TargetType, TruncatedProduct(RawValue, call.scaling_factor)))

\* C9: scaling factor 1.0 is the identity for the 64-bit integer decoders: the
\* call returns exactly the assembled 64-bit value for unsigned tags and exactly
\* its two's-complement reinterpretation for signed tags.
C9_ScalingOneIsIdentity64 ==
    /\ ReturnedOn("modbus_convert_int64", 4) /\ call.scaling_factor = One
    /\ (IsInt64Signed(call.data_type) \/ IsInt64Unsigned(call.data_type))
    => rc = MODBUS_CONV_OK /\ Holds(TargetMember, RawValue)

\* C10: modbus_convert is equivalent to the specialized decoder of the tag's
\* family: for non-null arguments, enough registers for the type and each of
\* the 43 tags, it returns the same code and stores the same value, in the union
\* member that matches the tag, as a direct call to the specialized decoder,
\* and a direct call returns and stores what modbus_convert does for its tag;
\* bit_pos does not affect any non-boolean type.
Specialized(registers, data_type, bit_pos, k) ==
    CASE data_type = MODBUS_BIT_BOOLEAN -> modbus_convert_bit_bool(registers, bit_pos, ResPtr)
      [] data_type = MODBUS_INT8_SIGNED -> modbus_convert_int8_signed(registers, k, ResPtr)
      [] data_type = MODBUS_INT8_UNSIGNED -> modbus_convert_int8_unsigned(registers, k, ResPtr)
      [] data_type = MODBUS_INT16_SIGNED_AB ->
            modbus_convert_int16_signed(registers, FALSE, k, ResPtr)
      [] data_type = MODBUS_INT16_SIGNED_BA ->
            modbus_convert_int16_signed(registers, TRUE, k, ResPtr)
      [] data_type = MODBUS_INT16_UNSIGNED_AB ->
            modbus_convert_int16_unsigned(registers, FALSE, k, ResPtr)
      [] data_type = MODBUS_INT16_UNSIGNED_BA ->
            modbus_convert_int16_unsigned(registers, TRUE, k, ResPtr)
      [] IsInt32Signed(data_type) \/ IsInt32Unsigned(data_type) ->
            modbus_convert_int32(registers, data_type, k, ResPtr)
      [] IsInt64Signed(data_type) \/ IsInt64Unsigned(data_type) ->
            modbus_convert_int64(registers, data_type, k, ResPtr)
      [] IsFloat32(data_type) -> modbus_convert_float32(registers, data_type, k, ResPtr)
      [] IsFloat64(data_type) -> modbus_convert_float64(registers, data_type, k, ResPtr)
MemberOf(data_type) ==
    CASE data_type = MODBUS_BIT_BOOLEAN -> "bool_val"
      [] data_type = MODBUS_INT8_SIGNED -> "i8"
      [] data_type = MODBUS_INT8_UNSIGNED -> "u8"
      [] data_type \in {MODBUS_INT16_SIGNED_AB, MODBUS_INT16_SIGNED_BA} -> "i16"
      [] data_type \in {MODBUS_INT16_UNSIGNED_AB, MODBUS_INT16_UNSIGNED_BA} -> "u16"
      [] IsInt32Signed(data_type) -> "i32"
      [] IsInt32Unsigned(data_type) -> "u32"
      [] IsInt64Signed(data_type) -> "i64"
      [] IsInt64Unsigned(data_type) -> "u64"
      [] IsFloat32(data_type) -> "f32"
      [] IsFloat64(data_type) -> "f64"
\* The outcome o is what the finished call returned and left in the union.
IsOutcome(o) == rc = o.rc /\ slot = (IF o.store = <<>> THEN EmptySlot ELSE o.store[1])
\* The tag under which modbus_convert routes to the direct call that was made.
TagOfCall ==
    CASE call.fn = "modbus_convert_bit_bool" -> MODBUS_BIT_BOOLEAN
      [] call.fn = "modbus_convert_int8_signed" -> MODBUS_INT8_SIGNED
      [] call.fn = "modbus_convert_int8_unsigned" -> MODBUS_INT8_UNSIGNED
      [] call.fn = "modbus_convert_int16_signed" ->
            IF call.swap_bytes THEN MODBUS_INT16_SIGNED_BA ELSE MODBUS_INT16_SIGNED_AB
      [] call.fn = "modbus_convert_int16_unsigned" ->
            IF call.swap_bytes THEN MODBUS_INT16_UNSIGNED_BA ELSE MODBUS_INT16_UNSIGNED_AB
      [] OTHER -> call.data_type
FamilyFn(data_type) ==
    CASE data_type = MODBUS_BIT_BOOLEAN -> "modbus_convert_bit_bool"
      [] data_type = MODBUS_INT8_SIGNED -> "modbus_convert_int8_signed"
      [] data_type = MODBUS_INT8_UNSIGNED -> "modbus_convert_int8_unsigned"
      [] data_type \in {MODBUS_INT16_SIGNED_AB, MODBUS_INT16_SIGNED_BA} ->
            "modbus_convert_int16_signed"
      [] data_type \in {MODBUS_INT16_UNSIGNED_AB, MODBUS_INT16_UNSIGNED_BA} ->
            "modbus_convert_int16_unsigned"
      [] IsInt32Signed(data_type) \/ IsInt32Unsigned(data_type) -> "modbus_convert_int32"
      [] IsInt64Signed(data_type) \/ IsInt64Unsigned(data_type) -> "modbus_convert_int64"
      [] IsFloat32(data_type) -> "modbus_convert_float32"
      [] IsFloat64(data_type) -> "modbus_convert_float64"
DirectCall ==
    /\ pc = "done" /\ call.fn # "modbus_convert" /\ ArgsOk
    /\ TagOfCall \in DataTypes /\ FamilyFn(TagOfCall) = call.fn
    /\ Len(buffer) >= WordsOf(TagOfCall)
DirectBitPos == IF call.fn = "modbus_convert_bit_bool" THEN call.bit_pos ELSE 0
DirectScaling == IF call.fn = "modbus_convert_bit_bool" THEN One ELSE call.scaling_factor
GenericCall ==
    /\ ReturnedOn("modbus_convert", 1) /\ call.data_type \in DataTypes
    /\ call.reg_count >= WordsOf(call.data_type)

C10_GenericEqualsSpecialized ==
    /\ GenericCall =>
          /\ \E o \in Specialized(RegPtr(buffer), call.data_type, call.bit_pos,
                                  call.scaling_factor) : IsOutcome(o)
          /\ rc = MODBUS_CONV_OK => slot.member = MemberOf(call.data_type)
          /\ call.data_type # MODBUS_BIT_BOOLEAN =>
                \A b \in {0, 15, 16, UINT8_MAX} :
                    modbus_convert(RegPtr(buffer), call.reg_count, call.data_type, b,
                                   call.scaling_factor, ResPtr)
                  = modbus_convert(RegPtr(buffer), call.reg_count, call.data_type, call.bit_pos,
                                   call.scaling_factor, ResPtr)
    /\ DirectCall =>
          \E o \in modbus_convert(RegPtr(buffer), Len(buffer), TagOfCall, DirectBitPos,
                                  DirectScaling, ResPtr) : IsOutcome(o)

\* modbus_convert decoded [0x1234] as INT16_SIGNED_BA with scaling 1.0 to 0x3412.
C10_Witness ==
    /\ GenericCall /\ call.data_type = MODBUS_INT16_SIGNED_BA /\ call.scaling_factor = One
    /\ buffer = <<x1234>> /\ call.bit_pos = UINT8_MAX
    /\ Holds("i16", IntOf(FALSE, NatOfBytes(<<3 * 16 + 4, 16 + 2>>)))

\* C12: modbus_convert never reads a register at an index >= reg_count: the
\* registers a call reads are within the reg_count it was given, and a call that
\* returns Success was given at least the word count its type requires.
C12_ReadsWithinRegCount ==
    Returned("modbus_convert") /\ ArgsOk =>
        /\ nread <= call.reg_count
        /\ rc = MODBUS_CONV_OK => call.reg_count >= WordsOf(call.data_type)

\* C13: the 64-bit reordering rules are non-duplicate: whatever pattern a
\* 64-bit call was made with, every other pattern name of the same family
\* assembles a different 64-bit value from some 4-register input.
Probes64 == {b \in DecoderBuffers : Len(b) = 4}
Differs64(reorder(_, _), p, q) ==
    \E regs \in Probes64 : reorder(RegPtr(regs), p) # reorder(RegPtr(regs), q)
C13_Patterns64AreDistinct ==
    /\ ReturnedOn("modbus_convert_int64", 4)
       /\ (IsInt64Signed(call.data_type) \/ IsInt64Unsigned(call.data_type)) =>
          \A o \in 0 .. 7 :
              LET q == call.data_type - Int64Offset(call.data_type) + o
              IN  q # call.data_type => Differs64(int64_reorder, call.data_type, q)
    /\ ReturnedOn("modbus_convert_float64", 4) /\ IsFloat64(call.data_type) =>
          \A q \in MODBUS_IEEE_FLOAT64_ABCDEFGH .. MODBUS_IEEE_FLOAT64_EFGHABCD :
              q # call.data_type => Differs64(float64_reorder, call.data_type, q)

\* C14: an error leaves the output untouched and no call changes its input: a
\* call that returns a code other than Success leaves the caller's result slot
\* as it was before the call, and every call leaves the register sequence as it
\* was.
C14_ErrorsLeaveOutputUntouched ==
    [][(rc' # MODBUS_CONV_OK => slot' = slot) /\ buffer' = buffer]_vars

\* modbus_convert_bit_bool refused bit position 16 on [0x1234] and the slot is
\* as it was.
C14_Witness ==
    /\ Returned("modbus_convert_bit_bool") /\ ArgsOk /\ call.bit_pos = 16
    /\ buffer = <<x1234>> /\ rc = MODBUS_CONV_ERR_INVALID_BIT /\ slot = EmptySlot

\* C11: concurrent calls do not interfere: under every interleaving of the
\* threads' steps, a call that has returned gave the code and stored the value
\* that the same call gives when it runs alone, and no step changes the register
\* buffer or anything of a thread other than the one that took it.
Alone(t) ==
    LET c == threads[t].call
    IN  IF c.fn = "modbus_convert_int32"
        THEN modbus_convert_int32(RegPtr(buffer), c.data_type, c.scaling_factor, ResPtr)
        ELSE modbus_convert_int16_unsigned(RegPtr(buffer), c.swap_bytes, c.scaling_factor, ResPtr)
AsAlone(t) ==
    \E o \in Alone(t) :
        /\ threads[t].rc = o.rc
        /\ threads[t].slot = (IF o.store = <<>> THEN EmptySlot ELSE o.store[1])
OneThreadSteps ==
    /\ buffer' = buffer
    /\ \A t, u \in Threads : t # u => threads'[t] = threads[t] \/ threads'[u] = threads[u]
C11_ConcurrentCallsDoNotInterfere ==
    /\ [](\A t \in Threads : threads[t].pc = "done" => AsAlone(t))
    /\ [][OneThreadSteps]_vars

\* Two calls are in flight on [0x1234, 0x5678]: thread 1 has assembled
\* 0x34127856 for UNSIGNED_DCBA while thread 2 is inside bytes_reverse.
C11_Witness ==
    /\ buffer = <<x1234, x5678>>
    /\ threads[1].call.data_type = MODBUS_INT32_UNSIGNED_DCBA
    /\ threads[1].pc = "store"
    /\ threads[1].val = NatOfBytes(<<3 * 16 + 4, 16 + 2, 7 * 16 + 8, 5 * 16 + 6>>)
    /\ threads[2].call.data_type = MODBUS_INT32_UNSIGNED_DCBA
    /\ threads[2].pc = "bytes_reverse" /\ threads[2].i = 1

====
